---- MODULE Spec2Model ----
(***************************************************************************)
(* A model of the Rustastic drone (src/src/drone.rs, src/src/packet_buffer.rs): *)
(* one drone, its link table, drop rate, flood deduplication set and        *)
(* fragment buffer, serviced by the reactor loop of RustasticDrone::run.    *)
(* Indices of the source are 0-based; TLA+ sequences are 1-based, so        *)
(* hops[hop_index] of the source is hops[hop_index + 1] here.               *)
(***************************************************************************)
EXTENDS Integers, Sequences, FiniteSets, TLC

\* ------------------------------------------------------------------ bounds

\* Longest hop list a packet of the environment carries.
MaxHops == 3
\* Longest insertion-order queue of the buffer the environment drives the
\* drone to (the queue grows by one on every kept fragment).
MaxOrder == 1

\* Largest capacity a buffer is built with when it is driven on its own,
\* and the number of operations applied to it.
MaxCapacity == 2
MaxOps == 5

\* Number of nodes of a network of drones: one client and NetSize - 1 drones.
NetSize == 4

\* The node identifiers in play: the drone and two neighbours.
NodeIds == {1, 2, 3}
\* The drone's own identifier (the id given to RustasticDrone::new).
id == 2
\* Identifiers the controller links the drone to.
Neighbours == NodeIds \ {id}
\* The far ends a send of the drone can find disconnected: a neighbour's
\* packet receiver, or the controller's event receiver.
Controller == 0
Endpoints == Neighbours \cup {Controller}

SessionIds == {7}
FragmentIndexes == {0, 1}
\* Contents of a fragment's data field.
Data == {"a", "b"}
FloodIds == {1}
\* Drop rates in percent (pdr * 100 of the source) and the draws of
\* gen_range(1f32..=100f32) that decide against them.
PdrValues == {0, 100}
Draws == {1, 100}
\* new() builds the buffer with PacketBuffer::new(16).
DefaultBufferSize == 16

NoPacket == [pack_type |-> [type |-> "None"]]

\* ------------------------------------------------------------ wire types

MsgFragment(k, data) == [type |-> "MsgFragment", fragment_index |-> k, data |-> data]
Ack(k) == [type |-> "Ack", fragment_index |-> k]
Nack(k, nt) == [type |-> "Nack", fragment_index |-> k, nack_type |-> nt]
FloodRequest(f, init, trace) ==
    [type |-> "FloodRequest", flood_id |-> f, initiator_id |-> init, path_trace |-> trace]
FloodResponse(f, trace) ==
    [type |-> "FloodResponse", flood_id |-> f, path_trace |-> trace]

Dropped == <<"Dropped">>
DestinationIsDrone == <<"DestinationIsDrone">>
ErrorInRouting(n) == <<"ErrorInRouting", n>>
UnexpectedRecipient(n) == <<"UnexpectedRecipient", n>>

SourceRoutingHeader(hops, i) == [hops |-> hops, hop_index |-> i]
Packet(pt, rh, s) == [pack_type |-> pt, routing_header |-> rh, session_id |-> s]

\* Mutation of Rev: the sequence is left in its order.
Unreversed(s) == s

Rev(s) == [j \in 1..Len(s) |-> s[Len(s) + 1 - j]]

\* wg_2024 SourceRoutingHeader, as the drone uses it.
increase_hop_index(rh) == [rh EXCEPT !.hop_index = @ + 1]
\* next_hop() returns an Option: <<>> is None, <<n>> is Some(n).
next_hop(rh) ==
    IF rh.hop_index + 1 < Len(rh.hops) THEN <<rh.hops[rh.hop_index + 2]>> ELSE <<>>
reverse(rh) ==
    [hops |-> Rev(rh.hops), hop_index |-> Len(rh.hops) - rh.hop_index - 1]

\* --------------------------------------------------------- PacketBuffer

MapRemove(m, key) == [x \in DOMAIN m \ {key} |-> m[x]]
MapInsert(m, key, v) == [x \in DOMAIN m \cup {key} |-> IF x = key THEN v ELSE m[x]]
RemoveAt(s, pos) == SubSeq(s, 1, pos - 1) \o SubSeq(s, pos + 1, Len(s))
\* iter().position(|k| k == key): the first position holding key, 0 if none.
Position(s, key) ==
    IF \E j \in 1..Len(s) : s[j] = key
    THEN CHOOSE j \in 1..Len(s) : s[j] = key /\ \A l \in 1..(j - 1) : s[l] # key
    ELSE 0

PacketBuffer_new(max_size) == [buffer |-> <<>>, order |-> <<>>, max_size |-> max_size]

\* Mutation of SeqOfSet: no member is visited.
NoMembers(S) == <<>>

\* Mutation of add_fragment: a full buffer gives up its newest key.
add_fragment_evicts_newest(pb, session_id, fragment) ==
    LET key == <<session_id, fragment.fragment_index>>
        evict == Cardinality(DOMAIN pb.buffer) >= pb.max_size /\ pb.order # <<>>
        buffer1 == IF evict THEN MapRemove(pb.buffer, pb.order[Len(pb.order)]) ELSE pb.buffer
        order1 == IF evict THEN SubSeq(pb.order, 1, Len(pb.order) - 1) ELSE pb.order
    IN  [pb EXCEPT !.buffer = MapInsert(buffer1, key, fragment),
                   !.order = Append(order1, key)]

\* Mutation of add_fragment: the fragment is not recorded.
add_fragment_forgets(pb, session_id, fragment) == pb

\* Mutation of get_fragment: the lookup ignores fragment_index and takes any
\* fragment cached for the session.
get_fragment_of_session(pb, session_id, fragment_index) ==
    IF \E key \in DOMAIN pb.buffer : key[1] = session_id
    THEN LET key == CHOOSE key \in DOMAIN pb.buffer : key[1] = session_id IN
         [found |-> <<pb.buffer[key]>>,
          pb |-> [pb EXCEPT !.buffer = MapRemove(pb.buffer, key),
                            !.order = SelectSeq(pb.order, LAMBDA x : x # key)]]
    ELSE [found |-> <<>>, pb |-> pb]

\* Mutation of get_fragment: the fragment is returned and stays stored.
get_fragment_keeps(pb, session_id, fragment_index) ==
    LET key == <<session_id, fragment_index>> IN
    IF key \in DOMAIN pb.buffer
    THEN [found |-> <<pb.buffer[key]>>, pb |-> pb]
    ELSE [found |-> <<>>, pb |-> pb]

\* The buffer the drone uses is keyed by (session_id, fragment.fragment_index)
\* and stores the fragment.
add_fragment(pb, session_id, fragment) ==
    LET key == <<session_id, fragment.fragment_index>>
        full == Cardinality(DOMAIN pb.buffer) >= pb.max_size
        evict == full /\ pb.order # <<>>
        buffer1 == IF evict THEN MapRemove(pb.buffer, Head(pb.order)) ELSE pb.buffer
        order1 == IF evict THEN Tail(pb.order) ELSE pb.order
    IN  [pb EXCEPT !.buffer = MapInsert(buffer1, key, fragment),
                   !.order = Append(order1, key)]

\* get_fragment returns an Option (<<>> or <<fragment>>) and the buffer it leaves.
get_fragment(pb, session_id, fragment_index) ==
    LET key == <<session_id, fragment_index>> IN
    IF key \in DOMAIN pb.buffer
    THEN LET pos == Position(pb.order, key) IN
         [found |-> <<pb.buffer[key]>>,
          pb |-> [pb EXCEPT !.buffer = MapRemove(pb.buffer, key),
                            !.order = IF pos # 0 THEN RemoveAt(pb.order, pos) ELSE pb.order]]
    ELSE [found |-> <<>>, pb |-> pb]

\* The largest max_size edit_max_size_buffer sets.
MaxBufferSize == 1024

edit_max_size_buffer(pb, new_size) ==
    [pb EXCEPT !.max_size = IF new_size > MaxBufferSize THEN MaxBufferSize ELSE new_size]

\* ------------------------------------------------------------- effects
\* What one handler does besides changing the drone: the sends it tries, in
\* order (to: the neighbour; outcome: "ok" the packet is on the neighbour's
\* channel, "disconnected" sender.send returned Err, "no_link" the link table
\* has no entry and nothing was sent), the events it puts on the controller's
\* channel, whether it panicked, and whether the panic was that of an
\* unreachable!() of the source.

Try(by, to, packet, outcome) == [by |-> by, to |-> to, packet |-> packet, outcome |-> outcome]
Fx(tries, evs, p) == [sent |-> tries, events |-> evs, panic |-> p, unreachable |-> FALSE]
NoFx == Fx(<<>>, <<>>, FALSE)
PanicFx == Fx(<<>>, <<>>, TRUE)
\* unreachable!()
UnreachableFx == [PanicFx EXCEPT !.unreachable = TRUE]
\* fx then gx; gx is a function of nothing here: callers pass the second
\* effect already computed and it is dropped when the first panicked.
Then(fx, gx) ==
    IF fx.panic THEN fx
    ELSE [Fx(fx.sent \o gx.sent, fx.events \o gx.events, gx.panic)
             EXCEPT !.unreachable = gx.unreachable]
\* Where a call leaves the thread of run().
Outcome(fx) ==
    IF fx.unreachable THEN "unreachable" ELSE IF fx.panic THEN "panicked" ELSE "running"

\* controller_send.send(DroneEvent::PacketDropped(packet)).unwrap()
packet_dropped(down, packet) ==
    IF Controller \in down THEN PanicFx ELSE Fx(<<>>, <<packet>>, FALSE)

\* ------------------------------------------------------- RustasticDrone
\* d is the drone: [id, pdr, packet_send, flood_id_received, buffer]. packet_send
\* maps a linked neighbour to the channel its Sender feeds. down is the set
\* of channels whose receiving end is gone when the handler runs: a send on
\* them returns Err.

Drone(p, links, floods, pb) ==
    [id |-> id, pdr |-> p, packet_send |-> links, flood_id_received |-> floods,
     buffer |-> pb]

\* sender.send(packet) on the link to node `to`, Err escalated to the controller.
send_or_report(by, d, down, to, packet) ==
    IF d.packet_send[to] \notin down
    THEN Fx(<<Try(by, to, packet, "ok")>>, <<>>, FALSE)
    ELSE Then(Fx(<<Try(by, to, packet, "disconnected")>>, <<>>, FALSE),
              packet_dropped(down, packet))

send_message(d, down, packet) ==
    LET rh == packet.routing_header IN
    IF rh.hop_index >= Len(rh.hops)
    THEN PanicFx                       \* hops[hop_index]: index out of bounds
    ELSE LET destination == rh.hops[rh.hop_index + 1] IN
         IF destination \in DOMAIN d.packet_send
         THEN send_or_report("send_message", d, down, destination, packet)
         ELSE IF packet.pack_type.type = "MsgFragment"
              THEN Fx(<<Try("send_message", destination, packet, "no_link")>>, <<>>, FALSE)
              ELSE Then(Fx(<<Try("send_message", destination, packet, "no_link")>>, <<>>, FALSE),
                        packet_dropped(down, packet))

\* fragment is an Option: <<>> or <<fragment>>.
\* hop_index -= 1 on a hop_index of 0 panics in a debug build; in a release
\* build it wraps to 2^64 - 1, reverse() wraps again to hops.len(), and
\* next_hop().unwrap() panics on None: the handler panics in either build.
send_nack(d, down, packet, fragment, nack_type) ==
    LET rh == packet.routing_header IN
    IF rh.hop_index = 0 \/ rh.hop_index - 1 > Len(rh.hops) - 1
    THEN PanicFx
    ELSE LET rh2 == reverse([rh EXCEPT !.hop_index = @ - 1])
             nh == next_hop(rh2)
         IN  IF nh = <<>>
             THEN PanicFx              \* next_hop().unwrap() on None
             ELSE LET prev_hop == nh[1]
                      nack == IF fragment # <<>>
                              THEN Nack(fragment[1].fragment_index, Dropped)
                              ELSE Nack(0, nack_type)
                      p == Packet(nack, increase_hop_index(rh2), packet.session_id)
                  IN  IF prev_hop \in DOMAIN d.packet_send
                      THEN send_or_report("send_nack", d, down, prev_hop, p)
                      ELSE Then(Fx(<<Try("send_nack", prev_hop, p, "no_link")>>, <<>>, FALSE),
                                packet_dropped(down, p))

\* Returns [ok, fx]: whether the packet names this drone at hop_index.
check_packet_correct_id(d, down, packet) ==
    LET rh == packet.routing_header IN
    IF rh.hop_index >= Len(rh.hops)
    THEN [ok |-> FALSE, fx |-> PanicFx]      \* hops[hop_index]: index out of bounds
    ELSE IF d.id = rh.hops[rh.hop_index + 1]
         THEN [ok |-> TRUE, fx |-> NoFx]
         ELSE [ok |-> FALSE,
               fx |-> send_nack(d, down, packet, <<>>, UnexpectedRecipient(d.id))]

check_neighbor(d, packet) ==
    packet.routing_header.hops[packet.routing_header.hop_index + 1] \in DOMAIN d.packet_send

\* A drop test that spares a draw equal to the drop rate.
check_drop_fragment_strict(d, val) == val < d.pdr

\* val is the draw of gen_range(1f32..=100f32); pdr is held in percent.
check_drop_fragment(d, val) == val <= d.pdr

\* A handler that answers an Ack as it answers a Nack: with the cached
\* fragment when there is one.
handle_ack_nack_any(d, down, packet) ==
    LET got == get_fragment(d.buffer, packet.session_id, packet.pack_type.fragment_index)
        d1 == [d EXCEPT !.buffer = got.pb]
    IN  IF got.found # <<>>
        THEN [d |-> d1,
              fx |-> send_message(d1, down, Packet(got.found[1], packet.routing_header,
                                                   packet.session_id))]
        ELSE [d |-> d, fx |-> send_message(d, down, packet)]

\* A retransmission under the header of the Nack.
retransmission_header_unturned(rh) == rh

\* A retransmission that turns the header round and leaves hop_index to
\* reverse() alone.
retransmission_header_unadjusted(rh) == reverse(rh)

\* The header handle_ack_nack gives the Fragment it retransmits, from the
\* header rh of the Nack as the dispatcher passed it on:
\* hop_index -= 1; reverse(); hop_index += 1.
retransmission_header(rh) == increase_hop_index(reverse([rh EXCEPT !.hop_index = @ - 1]))

\* The same header as crates/drone/src/lib.rs builds it: reverse() only.
lib_retransmission_header(rh) == reverse(rh)

\* Handlers return [d, fx]: the drone they leave and their effects.
handle_ack_nack(d, down, packet) ==
    LET rh == packet.routing_header IN
    IF rh.hop_index >= Len(rh.hops)
    THEN [d |-> d, fx |-> UnreachableFx]     \* unreachable!()
    ELSE IF packet.pack_type.type = "Nack"
         THEN LET got == get_fragment(d.buffer, packet.session_id,
                                      packet.pack_type.fragment_index)
                  d1 == [d EXCEPT !.buffer = got.pb]
              IN  IF got.found # <<>>
                  THEN LET new_packet == Packet(got.found[1],
                                                retransmission_header(rh),
                                                packet.session_id)
                       IN  [d |-> d1, fx |-> send_message(d1, down, new_packet)]
                  ELSE [d |-> d1, fx |-> send_message(d1, down, packet)]
         ELSE IF rh.hop_index = Len(rh.hops) - 1
              THEN [d |-> d, fx |-> NoFx]    \* logged, then return
              ELSE [d |-> d, fx |-> send_message(d, down, packet)]

handle_fragment(d, down, packet, fragment, val) ==
    IF check_drop_fragment(d, val)
    THEN [d |-> d, fx |-> send_nack(d, down, packet, <<fragment>>, Dropped)]
    ELSE LET d1 == [d EXCEPT !.buffer = add_fragment(@, packet.session_id, fragment)]
         IN  [d |-> d1, fx |-> send_message(d1, down, packet)]

RECURSIVE SeqOfSet(_)
\* The members of a set of node ids in ascending order. The source iterates
\* a HashMap, whose order is unspecified; the sends of one loop go to
\* distinct channels, so their order is not observable.
SeqOfSet(S) ==
    IF S = {} THEN <<>>
    ELSE LET m == CHOOSE x \in S : \A y \in S : x <= y
         IN  <<m>> \o SeqOfSet(S \ {m})

RECURSIVE ThenAll(_)
ThenAll(fxs) == IF fxs = <<>> THEN NoFx ELSE Then(Head(fxs), ThenAll(Tail(fxs)))

\* A drone that forwards no FloodRequest.
send_flood_request_lost(d, down, dest_node, flood_request, routing_header, session_id) ==
    NoFx

\* dest_node.1.send(new_packet): an Err is logged only.
send_flood_request(d, down, dest_node, flood_request, routing_header, session_id) ==
    LET new_packet == Packet(flood_request, routing_header, session_id) IN
    Fx(<<Try("send_flood_request", dest_node, new_packet,
             IF d.packet_send[dest_node] \notin down THEN "ok" ELSE "disconnected")>>,
       <<>>, FALSE)

send_flood_response(d, down, dest_node, flood_request, routing_header, session_id) ==
    LET new_packet == Packet(FloodResponse(flood_request.flood_id, flood_request.path_trace),
                             routing_header, session_id)
    IN  IF dest_node \in DOMAIN d.packet_send
        THEN send_or_report("send_flood_response", d, down, dest_node, new_packet)
        ELSE Then(Fx(<<Try("send_flood_response", dest_node, new_packet, "no_link")>>,
                     <<>>, FALSE),
                  packet_dropped(down, new_packet))

\* A drone that never consults flood_id_received.
handle_flood_request_unseen(d, down, flood_request0, packet) ==
    IF flood_request0.path_trace = <<>>
    THEN NoFx
    ELSE LET prev_node == flood_request0.path_trace[Len(flood_request0.path_trace)][1]
             flood_request == [flood_request0 EXCEPT
                                  !.path_trace = Append(@, <<d.id, "Drone">>)]
             new_hops == Rev([j \in 1..Len(flood_request.path_trace) |->
                                  flood_request.path_trace[j][1]])
         IN  IF Cardinality(DOMAIN d.packet_send) = 1
             THEN send_flood_response(d, down, prev_node, flood_request,
                                      SourceRoutingHeader(new_hops, 1), packet.session_id)
             ELSE LET to == SeqOfSet(DOMAIN d.packet_send \ {prev_node}) IN
                  ThenAll([j \in 1..Len(to) |->
                              send_flood_request(d, down, to[j], flood_request,
                                                 packet.routing_header, packet.session_id)])

handle_flood_request(d, down, flood_request0, packet) ==
    IF flood_request0.path_trace = <<>>
    THEN NoFx                                \* logged, then return
    ELSE LET prev_node == flood_request0.path_trace[Len(flood_request0.path_trace)][1]
             flood_request == [flood_request0 EXCEPT
                                  !.path_trace = Append(@, <<d.id, "Drone">>)]
             new_hops == Rev([j \in 1..Len(flood_request.path_trace) |->
                                  flood_request.path_trace[j][1]])
             new_routing_header == SourceRoutingHeader(new_hops, 1)
         IN  IF <<flood_request.flood_id, flood_request.initiator_id>> \in d.flood_id_received
                \/ Cardinality(DOMAIN d.packet_send) = 1
             THEN send_flood_response(d, down, prev_node, flood_request,
                                      new_routing_header, packet.session_id)
             ELSE LET to == SeqOfSet(DOMAIN d.packet_send \ {prev_node}) IN
                  ThenAll([j \in 1..Len(to) |->
                              send_flood_request(d, down, to[j], flood_request,
                                                 packet.routing_header, packet.session_id)])

\* A drone that swallows every FloodResponse.
handle_flood_response_lost(d, down, flood_response, packet) == NoFx

handle_flood_response(d, down, flood_response, packet) ==
    LET new_packet == Packet(flood_response, packet.routing_header, packet.session_id)
        to == packet.routing_header.hops[packet.routing_header.hop_index + 1]
    IN  IF to \in DOMAIN d.packet_send
        THEN send_or_report("handle_flood_response", d, down, to, new_packet)
        ELSE Then(Fx(<<Try("handle_flood_response", to, new_packet, "no_link")>>,
                     <<>>, FALSE),
                  packet_dropped(down, new_packet))

\* Returns [d, fx].
handle_packet(d, down, packet0, val) ==
    IF packet0.pack_type.type = "FloodRequest"
    THEN LET fx == handle_flood_request(d, down, packet0.pack_type, packet0) IN
         [d |-> IF fx.panic THEN d
                ELSE [d EXCEPT !.flood_id_received =
                         @ \cup {<<packet0.pack_type.flood_id,
                                   packet0.pack_type.initiator_id>>}],
          fx |-> fx]
    ELSE LET chk == check_packet_correct_id(d, down, packet0) IN
         IF ~chk.ok
         THEN [d |-> d, fx |-> chk.fx]
         ELSE LET packet == [packet0 EXCEPT !.routing_header = increase_hop_index(@)]
                  rh == packet.routing_header
              IN  IF rh.hop_index = Len(rh.hops)
                  THEN [d |-> d, fx |-> send_nack(d, down, packet, <<>>, DestinationIsDrone)]
                  ELSE IF ~check_neighbor(d, packet)
                  THEN [d |-> d, fx |-> send_nack(d, down, packet, <<>>, ErrorInRouting(d.id))]
                  ELSE CASE packet.pack_type.type \in {"Nack", "Ack"} ->
                                handle_ack_nack(d, down, packet)
                         [] packet.pack_type.type = "MsgFragment" ->
                                handle_fragment(d, down, packet, packet.pack_type, val)
                         [] packet.pack_type.type = "FloodResponse" ->
                                [d |-> d,
                                 fx |-> handle_flood_response(d, down, packet.pack_type, packet)]
                         [] packet.pack_type.type = "FloodRequest" ->
                                [d |-> d, fx |-> UnreachableFx]   \* unreachable!()

\* A handle_command that also empties the dedup set.
handle_command_forgetful(d, command) == [d EXCEPT !.flood_id_received = {}]

\* A handle_command whose AddSender replaces the channel of a linked node.
handle_command_last_writer(d, command) ==
    CASE command[1] = "AddSender" ->
             [d EXCEPT !.packet_send = MapInsert(@, command[2], command[3])]
      [] command[1] = "SetPacketDropRate" ->
             IF 0 <= command[2] /\ command[2] <= 100
             THEN [d EXCEPT !.pdr = command[2]]
             ELSE d
      [] command[1] = "RemoveSender" ->
             IF command[2] \in DOMAIN d.packet_send
             THEN [d EXCEPT !.packet_send = MapRemove(@, command[2])]
             ELSE d

\* A handle_command that takes the range of the drop rate without its bounds.
handle_command_open_range(d, command) ==
    CASE command[1] = "AddSender" ->
             IF command[2] \notin DOMAIN d.packet_send
             THEN [d EXCEPT !.packet_send = MapInsert(@, command[2], command[3])]
             ELSE d
      [] command[1] = "SetPacketDropRate" ->
             IF 0 < command[2] /\ command[2] < 100
             THEN [d EXCEPT !.pdr = command[2]]
             ELSE d
      [] command[1] = "RemoveSender" ->
             IF command[2] \in DOMAIN d.packet_send
             THEN [d EXCEPT !.packet_send = MapRemove(@, command[2])]
             ELSE d

\* A handle_command whose RemoveSender leaves the link in place.
handle_command_keeps_links(d, command) ==
    CASE command[1] = "AddSender" ->
             IF command[2] \notin DOMAIN d.packet_send
             THEN [d EXCEPT !.packet_send = MapInsert(@, command[2], command[3])]
             ELSE d
      [] command[1] = "SetPacketDropRate" ->
             IF 0 <= command[2] /\ command[2] <= 100
             THEN [d EXCEPT !.pdr = command[2]]
             ELSE d
      [] OTHER -> d

\* run() passes every command on.
run_breaks_never(command) == FALSE

\* The arm of run() that breaks out of the loop: DroneCommand::Crash.
run_breaks(command) == command[1] = "Crash"

\* The arm of handle_command that is an unreachable!(): DroneCommand::Crash.
handle_command_unreachable(command) == command[1] = "Crash"

\* Commands: <<"AddSender", node_id, channel>>, <<"SetPacketDropRate", pdr>>,
\* <<"RemoveSender", node_id>>, <<"Crash">>. On Crash the call panics with
\* the drone as it was (handle_command_unreachable).
handle_command(d, command) ==
    CASE command[1] = "AddSender" ->
             IF command[2] \notin DOMAIN d.packet_send
             THEN [d EXCEPT !.packet_send = MapInsert(@, command[2], command[3])]
             ELSE d
      [] command[1] = "SetPacketDropRate" ->
             IF 0 <= command[2] /\ command[2] <= 100
             THEN [d EXCEPT !.pdr = command[2]]
             ELSE d
      [] command[1] = "RemoveSender" ->
             IF command[2] \in DOMAIN d.packet_send
             THEN [d EXCEPT !.packet_send = MapRemove(@, command[2])]
             ELSE d
      [] command[1] = "Crash" -> d

\* ------------------------------------------------------------ the inputs

RECURSIVE SeqsUpTo(_, _)
\* Every sequence over S of length at most n.
SeqsUpTo(S, n) ==
    IF n = 0 THEN {<<>>}
    ELSE LET shorter == SeqsUpTo(S, n - 1) IN
         shorter \cup {Append(q, x) : q \in {r \in shorter : Len(r) = n - 1}, x \in S}

\* Routing headers a sender can put on the wire: any hop list, this drone
\* in it or not, and any hop_index up to and including hops.len().
Headers ==
    {SourceRoutingHeader(h, i) : <<h, i>> \in
        {hi \in SeqsUpTo(NodeIds, MaxHops) \X (0..MaxHops) : hi[2] <= Len(hi[1])}}

RoutedPayloads ==
    {MsgFragment(k, data) : k \in FragmentIndexes, data \in Data}
    \cup {Ack(0), Nack(0, Dropped), Nack(0, ErrorInRouting(1))}
    \cup {FloodResponse(f, <<<<1, "Client">>, <<id, "Drone">>>>) : f \in FloodIds}

PathTraces ==
    {<<>>, <<<<1, "Client">>>>, <<<<1, "Client">>, <<3, "Drone">>>>,
     <<<<1, "Client">>, <<id, "Drone">>>>}

Packets ==
    {Packet(pt, rh, s) : pt \in RoutedPayloads, rh \in Headers, s \in SessionIds}
    \cup {Packet(FloodRequest(f, 1, t), SourceRoutingHeader(<<>>, 0), s) :
              f \in FloodIds, t \in PathTraces, s \in SessionIds}

\* 150 stands for a rate above 1.0.
Commands ==
    {<<"AddSender", n, n>> : n \in Neighbours}
    \cup {<<"RemoveSender", n>> : n \in Neighbours}
    \cup {<<"SetPacketDropRate", v>> : v \in PdrValues \cup {150}}
    \cup {<<"Crash">>}

\* ------------------------------------------------------------- the state

VARIABLES
    pdr,                \* self.pdr, in percent
    packet_send,        \* self.packet_send
    flood_id_received,  \* self.flood_id_received
    buffer,             \* self.buffer
    status,             \* "running", "crashed" (run returned), "panicked",
                        \* "unreachable" (panicked at an unreachable!())
    handled,            \* the packet the last handle_packet call was given
    drop,               \* whether that call's draw fell within the drop rate
    pre,                \* the drone when that call began
    sent,               \* the sends that call tried, in order
    events,             \* the events that call put on controller_send
    ops,                \* the operations applied to a buffer driven on its own
    topology,           \* network: each node's packet_send keys
    dedup,              \* network: each drone's flood_id_received
    channel,            \* network: each node's packet_recv, oldest first
    outbox,             \* network: the sends each node's current call has yet to make
    copies,             \* network: FloodRequests put on each link so far
    generated,          \* network: FloodResponses built so far, as first sent
    delivered,          \* network: FloodResponses the client has received
    failed,             \* network: drones that panicked, reported or Nacked
    cache,              \* routes: each drone's buffer
    log,                \* routes: the Fragments handed to a link so far, in order
    controller_recv,    \* reactor: self.controller_recv, oldest first
    packet_recv,        \* reactor: self.packet_recv, oldest first
    controller_open,    \* reactor: whether the controller still holds its Sender
    issued,             \* reactor: the commands the controller has sent, in order
    serviced,           \* reactor: the commands run() has taken, in order
    command             \* the command the last iteration of run() took

netvars == <<topology, dedup, channel, outbox, copies, generated, delivered, failed,
             cache, log>>
reactorvars == <<controller_recv, packet_recv, controller_open, issued, serviced>>
vars == <<pdr, packet_send, flood_id_received, buffer, status, handled, drop, pre, sent, events,
          ops, netvars, reactorvars, command>>

self == Drone(pdr, packet_send, flood_id_received, buffer)

\* No network is in play.
NoNet ==
    /\ topology = <<>>
    /\ dedup = <<>>
    /\ channel = <<>>
    /\ outbox = <<>>
    /\ copies = <<>>
    /\ generated = {}
    /\ delivered = {}
    /\ failed = {}
    /\ cache = <<>>
    /\ log = <<>>

NoCommand == <<>>

\* No channel of a reactor is in play.
NoReactor ==
    /\ controller_recv = <<>>
    /\ packet_recv = <<>>
    /\ controller_open = TRUE
    /\ issued = <<>>
    /\ serviced = <<>>
    /\ command = NoCommand

\* RustasticDrone::new with both neighbours linked and a drop rate of 0,
\* before run() has received anything.
Init ==
    /\ pdr = 0
    /\ packet_send = [n \in Neighbours |-> n]
    /\ flood_id_received = {}
    /\ buffer = PacketBuffer_new(DefaultBufferSize)
    /\ status = "running"
    /\ handled = NoPacket
    /\ drop = FALSE
    /\ pre = self
    /\ sent = <<>>
    /\ events = <<>>
    /\ ops = <<>>
    /\ NoNet
    /\ NoReactor

\* recv(self.packet_recv) -> Ok(packet): handle_packet(packet), with the
\* channels in `down` disconnected and `val` the draw of the drop decision.
RecvPacket ==
    /\ status = "running"
    /\ handled = NoPacket
    /\ \E packet \in Packets, down \in SUBSET Endpoints :
       \E val \in IF packet.pack_type.type = "MsgFragment" THEN Draws ELSE {1} :
       LET r == handle_packet(self, down, packet, val) IN
       /\ Len(r.d.buffer.order) <= MaxOrder
       /\ pdr' = r.d.pdr
       /\ packet_send' = r.d.packet_send
       /\ flood_id_received' = r.d.flood_id_received
       /\ buffer' = r.d.buffer
       /\ status' = Outcome(r.fx)
       /\ handled' = packet
       /\ drop' = (packet.pack_type.type = "MsgFragment" /\ check_drop_fragment(self, val))
       /\ pre' = self
       /\ sent' = r.fx.sent
       /\ events' = r.fx.events
       /\ UNCHANGED <<ops, netvars, reactorvars, command>>

\* recv(self.controller_recv) -> Ok(command): Crash breaks the loop, any
\* other command goes to handle_command.
RecvCommand ==
    /\ status = "running"
    /\ handled = NoPacket
    /\ \E cmd \in Commands :
       IF run_breaks(cmd)
       THEN /\ status' = "crashed"
            /\ UNCHANGED <<pdr, packet_send, flood_id_received, buffer>>
       ELSE LET d == handle_command(self, cmd) IN
            /\ pdr' = d.pdr
            /\ packet_send' = d.packet_send
            /\ flood_id_received' = d.flood_id_received
            /\ buffer' = d.buffer
            /\ status' = IF handle_command_unreachable(cmd) THEN "unreachable" ELSE "running"
    /\ pre' = Drone(pdr', packet_send', flood_id_received', buffer')
    /\ UNCHANGED <<handled, drop, sent, events, ops, netvars, reactorvars, command>>

\* handle_packet has returned and run() is back at select_biased!: what the
\* call did has been observed.
Loop ==
    /\ status = "running"
    /\ handled # NoPacket
    /\ handled' = NoPacket
    /\ drop' = FALSE
    /\ pre' = self
    /\ sent' = <<>>
    /\ events' = <<>>
    /\ UNCHANGED <<pdr, packet_send, flood_id_received, buffer, status, ops, netvars, reactorvars, command>>

Next ==
    \/ RecvPacket
    \/ RecvCommand
    \/ Loop

Spec == Init /\ [][Next]_vars

\* ------------------------------------------- the buffer driven on its own
\* PacketBuffer behind its public interface: a buffer of any capacity from
\* 1 to MaxCapacity, built empty, and then add_fragment and get_fragment in
\* any order. ops records each call: <<"add", key>> or
\* <<"get", key, found>>.

BufferKeys == {<<7, 0>>, <<7, 1>>, <<8, 0>>}

BufferInit ==
    /\ pdr = 0
    /\ packet_send = [n \in Neighbours |-> n]
    /\ flood_id_received = {}
    /\ \E max_size \in 1..MaxCapacity : buffer = PacketBuffer_new(max_size)
    /\ status = "running"
    /\ handled = NoPacket
    /\ drop = FALSE
    /\ pre = Drone(0, [n \in Neighbours |-> n], {}, PacketBuffer_new(DefaultBufferSize))
    /\ sent = <<>>
    /\ events = <<>>
    /\ ops = <<>>
    /\ NoNet
    /\ NoReactor

BufferAdd ==
    /\ Len(ops) < MaxOps
    /\ \E key \in BufferKeys :
           /\ buffer' = add_fragment(buffer, key[1], MsgFragment(key[2], "a"))
           /\ ops' = Append(ops, <<"add", key>>)
    /\ UNCHANGED <<pdr, packet_send, flood_id_received, status, handled, drop, pre,
                   sent, events, netvars, reactorvars, command>>

BufferGet ==
    /\ Len(ops) < MaxOps
    /\ \E key \in BufferKeys :
           LET got == get_fragment(buffer, key[1], key[2]) IN
           /\ buffer' = got.pb
           /\ ops' = Append(ops, <<"get", key, got.found # <<>>>>)
    /\ UNCHANGED <<pdr, packet_send, flood_id_received, status, handled, drop, pre,
                   sent, events, netvars, reactorvars, command>>

BufferNext ==
    \/ BufferAdd
    \/ BufferGet

SpecBuffer == BufferInit /\ [][BufferNext]_vars

\* The same buffer with its third operation: edit_max_size_buffer, with a
\* new size below, at and above the sizes in use and above the cap. ops
\* records the call as <<"edit", new_size>>.
BufferSizes == {0, 1, MaxCapacity, MaxBufferSize + 1}

BufferEdit ==
    /\ Len(ops) < MaxOps
    /\ \E new_size \in BufferSizes :
           /\ buffer' = edit_max_size_buffer(buffer, new_size)
           /\ ops' = Append(ops, <<"edit", new_size>>)
    /\ UNCHANGED <<pdr, packet_send, flood_id_received, status, handled, drop, pre,
                   sent, events, netvars, reactorvars, command>>

BufferEditNext ==
    \/ BufferAdd
    \/ BufferGet
    \/ BufferEdit

SpecBufferEdit == BufferInit /\ [][BufferEditNext]_vars

\* ------------------------------------------------- a network of drones
\* One client, the initiator of a flood, and NetSize - 1 drones, each running
\* handle_packet on the packets of its own channel. Links are symmetric and
\* do not change, every node stays alive, and the client has sent its
\* FloodRequest to each of its neighbours. The client only consumes what
\* reaches it.

Initiator == 1
NetNodes == 1..NetSize
NetDrones == NetNodes \ {Initiator}
NetLinks == {l \in NetNodes \X NetNodes : l[1] # l[2]}

RECURSIVE Reach(_, _)
\* The nodes reachable from the set S over the links of t.
Reach(t, S) ==
    LET more == S \cup UNION {t[n] : n \in S} IN
    IF more = S THEN S ELSE Reach(t, more)

\* Every connected network of symmetric links over the nodes.
Topologies ==
    {t \in [NetNodes -> SUBSET NetNodes] :
        /\ \A n \in NetNodes : n \notin t[n]
        /\ \A n, m \in NetNodes : m \in t[n] => n \in t[m]
        /\ Reach(t, {Initiator}) = NetNodes}

\* start_flooding of the client: trace [(self, Client)], empty routing header.
TheFlood ==
    Packet(FloodRequest(1, Initiator, <<<<Initiator, "Client">>>>),
           SourceRoutingHeader(<<>>, 0), 0)

\* The sends of `tries` as the (recipient, packet) pairs still to be made.
Pending(tries) ==
    [j \in 1..Len(tries) |-> [to |-> tries[j].to, packet |-> tries[j].packet]]

NetInit ==
    /\ pdr = 0
    /\ packet_send = [n \in Neighbours |-> n]
    /\ flood_id_received = {}
    /\ buffer = PacketBuffer_new(DefaultBufferSize)
    /\ status = "running"
    /\ handled = NoPacket
    /\ drop = FALSE
    /\ pre = Drone(0, [n \in Neighbours |-> n], {}, PacketBuffer_new(DefaultBufferSize))
    /\ sent = <<>>
    /\ events = <<>>
    /\ ops = <<>>
    /\ topology \in Topologies
    /\ dedup = [n \in NetDrones |-> {}]
    /\ channel = [n \in NetNodes |-> <<>>]
    /\ outbox = [n \in NetNodes |->
                    IF n = Initiator
                    THEN Pending([j \in 1..Cardinality(topology[Initiator]) |->
                                     Try("send_flood_request",
                                         SeqOfSet(topology[Initiator])[j], TheFlood, "ok")])
                    ELSE <<>>]
    /\ copies = [l \in NetLinks |-> 0]
    /\ generated = {}
    /\ delivered = {}
    /\ failed = {}
    /\ cache = <<>>
    /\ log = <<>>
    /\ NoReactor

\* recv(self.packet_recv) of drone n's loop: between two calls, the drone
\* takes the oldest packet of its channel.
DroneTakes(n) ==
    /\ channel[n] # <<>>
    /\ outbox[n] = <<>>
    /\ n \notin failed
    /\ channel' = [channel EXCEPT ![n] = Tail(@)]

\* Drone n handles the packet it takes; what the call sends leaves one
\* packet at a time (NodeSend).
DroneRecv(n) ==
    /\ DroneTakes(n)
    /\ LET d == [Drone(0, [m \in topology[n] |-> m], dedup[n],
                       PacketBuffer_new(DefaultBufferSize)) EXCEPT !.id = n]
           r == handle_packet(d, {}, Head(channel[n]), 1)
           tries == r.fx.sent
           built == SelectSeq(tries, LAMBDA t : t.by = "send_flood_response")
       IN  /\ outbox' = [outbox EXCEPT ![n] = Pending(tries)]
           /\ dedup' = [dedup EXCEPT ![n] = r.d.flood_id_received]
           /\ generated' = generated \cup {built[j].packet : j \in 1..Len(built)}
           /\ failed' = IF \/ r.fx.panic
                           \/ r.fx.events # <<>>
                           \/ \E j \in 1..Len(tries) :
                                  \/ tries[j].outcome # "ok"
                                  \/ tries[j].packet.pack_type.type = "Nack"
                        THEN failed \cup {n} ELSE failed
    /\ UNCHANGED <<topology, copies, delivered, cache, log>>
    /\ UNCHANGED <<pdr, packet_send, flood_id_received, buffer, status, handled, drop, pre,
                   sent, events, ops, reactorvars, command>>

\* A link that hands a packet over ahead of those already waiting.
NodeSend_overtaking(n) ==
    /\ \E j \in DOMAIN outbox[n] :
        LET s == outbox[n][j] IN
        /\ outbox' = [outbox EXCEPT ![n] = RemoveAt(@, j)]
        /\ channel' = [channel EXCEPT ![s.to] = <<s.packet>> \o @]
        /\ copies' = copies
    /\ UNCHANGED <<topology, dedup, generated, delivered, failed, cache, log>>
    /\ UNCHANGED <<pdr, packet_send, flood_id_received, buffer, status, handled, drop, pre,
                   sent, events, ops, reactorvars, command>>

\* sender.send(packet) of node n's current call: the packet joins the
\* recipient's channel. The only calls that send more than once are the for
\* loops over the HashMap packet_send, which visit the neighbours in an
\* arbitrary order.
NodeSend(n) ==
    /\ \E j \in DOMAIN outbox[n] :
        LET s == outbox[n][j] IN
        /\ outbox' = [outbox EXCEPT ![n] = RemoveAt(@, j)]
        /\ channel' = [channel EXCEPT ![s.to] = Append(@, s.packet)]
        /\ copies' = IF s.packet.pack_type.type = "FloodRequest"
                     THEN [copies EXCEPT ![<<n, s.to>>] = @ + 1]
                     ELSE copies
    /\ UNCHANGED <<topology, dedup, generated, delivered, failed, cache, log>>
    /\ UNCHANGED <<pdr, packet_send, flood_id_received, buffer, status, handled, drop, pre,
                   sent, events, ops, reactorvars, command>>

\* The client takes the oldest packet of its channel.
ClientRecv ==
    /\ channel[Initiator] # <<>>
    /\ channel' = [channel EXCEPT ![Initiator] = Tail(@)]
    /\ delivered' = IF Head(channel[Initiator]).pack_type.type = "FloodResponse"
                    THEN delivered \cup {Head(channel[Initiator])}
                    ELSE delivered
    /\ UNCHANGED <<topology, dedup, outbox, copies, generated, failed, cache, log>>
    /\ UNCHANGED <<pdr, packet_send, flood_id_received, buffer, status, handled, drop, pre,
                   sent, events, ops, reactorvars, command>>

NetNext ==
    \/ \E n \in NetDrones : DroneRecv(n)
    \/ \E n \in NetNodes : NodeSend(n)
    \/ ClientRecv

SpecNet == NetInit /\ [][NetNext]_vars

\* Every thread keeps being scheduled: a drone with a packet waiting
\* eventually takes it (the only steps of SpecNet that take a packet from a
\* drone's channel are DroneRecv steps), a call eventually makes its next
\* send, and the client eventually takes what waits for it.
SpecNetFair ==
    /\ SpecNet
    /\ \A n \in NetDrones : WF_channel(DroneTakes(n))
    /\ \A n \in NetNodes : WF_vars(NodeSend(n))
    /\ WF_vars(ClientRecv)

\* ------------------------------------------------- routed packets in a network
\* The nodes of the network above on a line: a client at each end (the first
\* and the last node) and drones between them, each running handle_packet on
\* the packets of its own channel. Any of the line's links may have been
\* removed before the packets arrive; no command arrives afterwards. One
\* routed packet of any type with any header is put on the channel of one
\* drone, or the source puts two Fragments of one session on the first drone
\* of the route along the line. A client only receives: what reaches it stays
\* in its channel. A drone that panics is in `failed`: its thread and its
\* Receiver are gone, and a send to it returns Err.

RouteDrones == NetNodes \ {Initiator, NetSize}
TheRoute == [j \in 1..NetSize |-> j]

\* The line, with any of its links removed.
RouteTopologies ==
    {t \in [NetNodes -> SUBSET NetNodes] :
        /\ \A n, m \in NetNodes : m \in t[n] => (n \in t[m] /\ (m = n + 1 \/ n = m + 1))}

\* Drop rates in percent: 0.0, and 0.5 under which either draw can happen.
RouteRates == {0, 50}

RouteHeaders ==
    {SourceRoutingHeader(h, i) : <<h, i>> \in
        {hi \in SeqsUpTo(NetNodes, MaxHops) \X (0..MaxHops) : hi[2] <= Len(hi[1])}}
    \cup {SourceRoutingHeader(TheRoute, i) : i \in 0..NetSize}

RoutePayloads ==
    {MsgFragment(0, "a"), Ack(0), Nack(0, Dropped),
     FloodResponse(1, <<<<Initiator, "Client">>, <<2, "Drone">>>>)}

\* What the neighbours have put on the drones' channels when the run starts:
\* <<n, packets>> is the sequence `packets` on the channel of drone n.
RouteInjections ==
    {<<n, <<Packet(pt, rh, 7)>>>> : n \in RouteDrones, pt \in RoutePayloads, rh \in RouteHeaders}
    \cup {<<2, <<Packet(MsgFragment(0, "a"), SourceRoutingHeader(TheRoute, 1), 7),
                 Packet(MsgFragment(1, "b"), SourceRoutingHeader(TheRoute, 1), 7)>>>>}

\* The Fragments among the packets a neighbour has put on drone n's channel,
\* as log entries.
Injected(n, packets) ==
    LET frags == SelectSeq(packets, LAMBDA p : p.pack_type.type = "MsgFragment")
    IN  [j \in 1..Len(frags) |->
            [from |-> Initiator, to |-> n, packet |-> frags[j], cause |-> "injected",
             on |-> NoPacket]]

RouteInit ==
    /\ pdr \in RouteRates
    /\ packet_send = [n \in Neighbours |-> n]
    /\ flood_id_received = {}
    /\ buffer = PacketBuffer_new(DefaultBufferSize)
    /\ status = "running"
    /\ handled = NoPacket
    /\ drop = FALSE
    /\ pre = Drone(0, [n \in Neighbours |-> n], {}, PacketBuffer_new(DefaultBufferSize))
    /\ sent = <<>>
    /\ events = <<>>
    /\ ops = <<>>
    /\ topology \in RouteTopologies
    /\ dedup = [n \in RouteDrones |-> {}]
    /\ \E inj \in RouteInjections :
           /\ channel = [n \in NetNodes |-> IF n = inj[1] THEN inj[2] ELSE <<>>]
           /\ log = Injected(inj[1], inj[2])
    /\ outbox = [n \in NetNodes |-> <<>>]
    /\ copies = <<>>
    /\ generated = {}
    /\ delivered = {}
    /\ failed = {}
    /\ cache = [n \in RouteDrones |-> PacketBuffer_new(DefaultBufferSize)]
    /\ NoReactor

\* The Fragments among `tries` that a link took, as log entries: who handed
\* which packet to whom, the packet whose handling did it and its type
\* ("MsgFragment": a forward; "Nack": a retransmission).
Logged(n, on, tries) ==
    LET taken == SelectSeq(tries, LAMBDA t : t.outcome = "ok"
                                             /\ t.packet.pack_type.type = "MsgFragment")
    IN  [j \in 1..Len(taken) |->
            [from |-> n, to |-> taken[j].to, packet |-> taken[j].packet,
             cause |-> on.pack_type.type, on |-> on]]

\* Drone n handles the packet it takes; the packet the call sends leaves in a
\* step of its own (NodeSend).
RouteRecv(n) ==
    /\ DroneTakes(n)
    /\ LET packet == Head(channel[n]) IN
       \E val \in IF packet.pack_type.type = "MsgFragment" THEN Draws ELSE {1} :
       LET d == [Drone(pdr, [m \in topology[n] |-> m], dedup[n], cache[n]) EXCEPT !.id = n]
           r == handle_packet(d, failed, packet, val)
           tries == r.fx.sent
       IN  /\ outbox' = [outbox EXCEPT ![n] =
                            Pending(SelectSeq(tries, LAMBDA t : t.outcome = "ok"))]
           /\ cache' = [cache EXCEPT ![n] = r.d.buffer]
           /\ dedup' = [dedup EXCEPT ![n] = r.d.flood_id_received]
           /\ failed' = IF r.fx.panic THEN failed \cup {n} ELSE failed
           /\ log' = log \o Logged(n, packet, tries)
    /\ UNCHANGED <<topology, copies, generated, delivered>>
    /\ UNCHANGED <<pdr, packet_send, flood_id_received, buffer, status, handled, drop, pre,
                   sent, events, ops, reactorvars, command>>

RouteNext ==
    \/ \E n \in RouteDrones : RouteRecv(n)
    \/ \E n \in RouteDrones : NodeSend(n)

SpecRoute == RouteInit /\ [][RouteNext]_vars

\* Every drone's thread keeps being scheduled: a live drone with a packet
\* waiting eventually takes it (the only steps of SpecRoute that take a
\* packet from a channel are RouteRecv steps), and a call eventually makes
\* its send.
SpecRouteFair ==
    /\ SpecRoute
    /\ \A n \in RouteDrones : WF_channel(DroneTakes(n))
    /\ \A n \in RouteDrones : WF_vars(NodeSend(n))

\* ------------------------------------------------- the reactor loop
\* run() of one drone with its two channels. The controller sends up to
\* MaxCommands commands and may then drop its Sender; packets keep arriving
\* for as long as the packet channel holds fewer than MaxQueue of them.
\* select_biased! polls controller_recv first: a packet is taken only when
\* that poll is not ready, and a channel that is empty and disconnected is
\* ready (recv yields Err, which run() ignores before it loops).

MaxCommands == 2
MaxQueue == 2

ReactorCommands ==
    {<<"Crash">>, <<"SetPacketDropRate", 100>>, <<"RemoveSender", 3>>, <<"AddSender", 3, 3>>}

\* A Fragment to forward, a Nack for it on its way back, a first copy of a
\* flood, and an Ack with an empty hop list.
ReactorPackets ==
    {Packet(MsgFragment(0, "a"), SourceRoutingHeader(<<1, id, 3>>, 1), 7),
     Packet(Nack(0, Dropped), SourceRoutingHeader(<<3, id, 1>>, 1), 7),
     Packet(FloodRequest(1, 1, <<<<1, "Client">>>>), SourceRoutingHeader(<<>>, 0), 7),
     Packet(Ack(0), SourceRoutingHeader(<<>>, 0), 7)}

ReactorInit ==
    /\ pdr = 0
    /\ packet_send = [n \in Neighbours |-> n]
    /\ flood_id_received = {}
    /\ buffer = PacketBuffer_new(DefaultBufferSize)
    /\ status = "running"
    /\ handled = NoPacket
    /\ drop = FALSE
    /\ pre = self
    /\ sent = <<>>
    /\ events = <<>>
    /\ ops = <<>>
    /\ NoNet
    /\ NoReactor

\* controller_to_drone.send(command)
ControllerSend ==
    /\ controller_open
    /\ Len(issued) < MaxCommands
    /\ \E cmd \in ReactorCommands :
           /\ controller_recv' = Append(controller_recv, cmd)
           /\ issued' = Append(issued, cmd)
    /\ UNCHANGED <<pdr, packet_send, flood_id_received, buffer, status, handled, drop, pre,
                   sent, events, ops, netvars, packet_recv, controller_open, serviced,
                   command>>

\* The controller drops its Sender.
ControllerDrop ==
    /\ controller_open
    /\ controller_open' = FALSE
    /\ UNCHANGED <<pdr, packet_send, flood_id_received, buffer, status, handled, drop, pre,
                   sent, events, ops, netvars, controller_recv, packet_recv, issued,
                   serviced, command>>

\* A neighbour puts a packet on the drone's channel.
PacketArrives ==
    /\ Len(packet_recv) < MaxQueue
    /\ \E packet \in ReactorPackets : packet_recv' = Append(packet_recv, packet)
    /\ UNCHANGED <<pdr, packet_send, flood_id_received, buffer, status, handled, drop, pre,
                   sent, events, ops, netvars, controller_recv, controller_open, issued,
                   serviced, command>>

\* A reactor that takes a packet whenever one is queued.
TakePacket_unbiased ==
    /\ status = "running"
    /\ packet_recv # <<>>
    /\ packet_recv' = Tail(packet_recv)

\* A reactor whose loop goes on after Crash.
TakePacket_undead ==
    /\ status \in {"running", "crashed"}
    /\ controller_recv = <<>>
    /\ controller_open
    /\ packet_recv # <<>>
    /\ packet_recv' = Tail(packet_recv)

\* recv(self.controller_recv) -> command is the branch select_biased! takes.
TakeCommand ==
    /\ status = "running"
    /\ controller_recv # <<>>
    /\ controller_recv' = Tail(controller_recv)

\* recv(self.packet_recv) -> packet is the branch select_biased! takes: the
\* poll of controller_recv was not ready.
TakePacket ==
    /\ status = "running"
    /\ controller_recv = <<>>
    /\ controller_open
    /\ packet_recv # <<>>
    /\ packet_recv' = Tail(packet_recv)

\* One iteration of run() on a command: Crash breaks the loop, any other
\* command goes to handle_command.
ServiceCommand ==
    /\ TakeCommand
    /\ LET cmd == Head(controller_recv)
           d == IF run_breaks(cmd) THEN self ELSE handle_command(self, cmd)
       IN  /\ pdr' = d.pdr
           /\ packet_send' = d.packet_send
           /\ flood_id_received' = d.flood_id_received
           /\ buffer' = d.buffer
           /\ status' = IF run_breaks(cmd) THEN "crashed"
                        ELSE IF handle_command_unreachable(cmd) THEN "unreachable"
                        ELSE "running"
           /\ serviced' = Append(serviced, cmd)
           /\ command' = cmd
    /\ handled' = NoPacket
    /\ drop' = FALSE
    /\ pre' = self
    /\ sent' = <<>>
    /\ events' = <<>>
    /\ UNCHANGED <<ops, netvars, packet_recv, controller_open, issued>>

\* One iteration of run() on a packet: handle_packet(packet).
ServicePacket ==
    /\ TakePacket
    /\ \E val \in IF Head(packet_recv).pack_type.type = "MsgFragment" THEN Draws ELSE {1} :
       LET packet == Head(packet_recv)
           r == handle_packet(self, {}, packet, val)
       IN  /\ Len(r.d.buffer.order) <= MaxOrder
           /\ pdr' = r.d.pdr
           /\ packet_send' = r.d.packet_send
           /\ flood_id_received' = r.d.flood_id_received
           /\ buffer' = r.d.buffer
           /\ status' = Outcome(r.fx)
           /\ handled' = packet
           /\ drop' = (packet.pack_type.type = "MsgFragment" /\ check_drop_fragment(self, val))
           /\ pre' = self
           /\ sent' = r.fx.sent
           /\ events' = r.fx.events
    /\ command' = NoCommand
    /\ UNCHANGED <<ops, netvars, controller_recv, controller_open, issued, serviced>>

ReactorNext ==
    \/ ControllerSend
    \/ ControllerDrop
    \/ PacketArrives
    \/ ServiceCommand
    \/ ServicePacket

SpecReactor == ReactorInit /\ [][ReactorNext]_vars

\* The drone's thread keeps being scheduled: while a command waits and the
\* loop is alive, the loop eventually takes a command (the only steps of
\* SpecReactor that take one are ServiceCommand steps).
SpecReactorFair == SpecReactor /\ WF_controller_recv(TakeCommand)

\* And while the packet branch is the one select_biased! takes, the loop
\* eventually takes a packet (the only steps of SpecReactor that take one are
\* ServicePacket steps).
SpecReactorLive == SpecReactorFair /\ WF_packet_recv(TakePacket)

\* ------------------------------------------------- commands on their own
\* handle_command applied to a drone with any link table and drop rate.
\* Each neighbour can be reached over two channels, n and n + 10; drop rates
\* are in percent, -1 and 101 standing for rates below 0.0 and above 1.0.

CommandChannels(n) == {n, n + 10}
CommandRates == {-1, 0, 50, 100, 101}

\* Every link table over the neighbours.
LinkTables ==
    UNION {{t \in [S -> UNION {CommandChannels(n) : n \in S}] :
               \A n \in S : t[n] \in CommandChannels(n)} : S \in SUBSET Neighbours}

CommandInputs ==
    {<<"AddSender", n, c>> : n \in Neighbours, c \in UNION {CommandChannels(m) : m \in Neighbours}}
    \cup {<<"RemoveSender", n>> : n \in Neighbours}
    \cup {<<"SetPacketDropRate", v>> : v \in CommandRates}

CommandInit ==
    /\ pdr \in {v \in CommandRates : 0 <= v /\ v <= 100}
    /\ packet_send \in LinkTables
    /\ flood_id_received = {}
    /\ buffer = PacketBuffer_new(DefaultBufferSize)
    /\ status = "running"
    /\ handled = NoPacket
    /\ drop = FALSE
    /\ pre = self
    /\ sent = <<>>
    /\ events = <<>>
    /\ ops = <<>>
    /\ NoNet
    /\ NoReactor

\* self.handle_command(command), as run() calls it.
ApplyCommand ==
    /\ \E cmd \in CommandInputs :
           LET d == handle_command(self, cmd) IN
           /\ pdr' = d.pdr
           /\ packet_send' = d.packet_send
           /\ flood_id_received' = d.flood_id_received
           /\ buffer' = d.buffer
           /\ command' = cmd
    /\ pre' = self
    /\ UNCHANGED <<status, handled, drop, sent, events, ops, netvars, reactorvars>>

CommandNext == ApplyCommand

SpecCommands == CommandInit /\ [][CommandNext]_vars

\* ------------------------------------------------- reading the last call
\* What the claims say of one handle_packet call, read off the packet it was
\* given (handled), the drone it began with (pre), what it tried to send
\* (sent), what it reported (events) and the drone it left.

\* The call was given a packet that is routed by its header.
Routed == handled # NoPacket /\ handled.pack_type.type # "FloodRequest"
hrh == handled.routing_header
\* hops[hop_index] exists and is this drone.
Addressed ==
    /\ Routed
    /\ hrh.hop_index < Len(hrh.hops)
    /\ hrh.hops[hrh.hop_index + 1] = id
\* hops[hop_index] exists and is another node.
Misaddressed ==
    /\ Routed
    /\ hrh.hop_index < Len(hrh.hops)
    /\ hrh.hops[hrh.hop_index + 1] # id
HasNext == hrh.hop_index + 1 < Len(hrh.hops)
NextHop == hrh.hops[hrh.hop_index + 2]
NextLinked == HasNext /\ NextHop \in DOMAIN pre.packet_send
HasPrev == hrh.hop_index >= 1
PrevHop == hrh.hops[hrh.hop_index]
\* The packet as it is forwarded: everything kept, hop_index one further.
Advanced == [handled EXCEPT !.routing_header.hop_index = @ + 1]
Key == <<handled.session_id, handled.pack_type.fragment_index>>
Cached == Key \in DOMAIN pre.buffer.buffer
\* One send was tried, of packet p to node n.
OnlySend(n, p) == Len(sent) = 1 /\ sent[1].to = n /\ sent[1].packet = p
\* One send was tried, of a Nack of the given kind and index for the
\* handled packet's session, to the previous hop when there is one.
OnlyNack(k, kind) ==
    /\ Len(sent) = 1
    /\ sent[1].packet.pack_type = Nack(k, kind)
    /\ sent[1].packet.session_id = handled.session_id
    /\ HasPrev => sent[1].to = PrevHop

\* ---------------------------------------------------------------- claims

\* C1: no input makes the node panic: whatever packet arrives and whichever
\* sends fail, the reactor loop does not abort.
C1_NeverPanics == status # "panicked"

\* C2: an Ack that names this node at hop i and has a further hop i+1 that
\* is a linked neighbour is sent on to hops[i+1], unchanged but for
\* hop_index = i+1 -- also when hops[i+1] is the last hop.
C2_AckForwarded ==
    (Addressed /\ handled.pack_type.type = "Ack" /\ NextLinked)
        => OnlySend(NextHop, Advanced)

\* C3: a drone holding fragment (s, k) that receives a Nack(Dropped, k, s)
\* naming it at the current hop sends the cached fragment to the previous
\* hop of the Nack's header and removes (s, k) from its cache; the same Nack
\* arriving again finds nothing cached, triggers no resend and is forwarded
\* to the Nack's next hop.
C3_Retransmission ==
    (Addressed /\ handled.pack_type.type = "Nack" /\ handled.pack_type.nack_type = Dropped
               /\ NextLinked)
        => IF Cached
           THEN /\ Len(sent) = 1
                /\ sent[1].packet.pack_type = pre.buffer.buffer[Key]
                /\ sent[1].packet.session_id = handled.session_id
                /\ HasPrev => sent[1].to = PrevHop
                /\ Key \notin DOMAIN buffer.buffer
           ELSE OnlySend(NextHop, Advanced)

\* C4: a Fragment (s, k) that passes the dispatcher checks and is drawn to
\* be dropped yields exactly one Nack(Dropped, k, s) to the previous hop; the
\* fragment is neither forwarded nor cached.
C4_DropNacks ==
    (Addressed /\ handled.pack_type.type = "MsgFragment" /\ NextLinked /\ drop)
        => /\ OnlyNack(handled.pack_type.fragment_index, Dropped)
           /\ buffer = pre.buffer

\* C5: a Fragment addressed to this drone, with a linked next hop and drawn
\* to be kept, is in the cache under (session_id, fragment_index) afterwards
\* and is handed to the link of hops[hop_index + 1] with session_id, hops and
\* payload unchanged and hop_index advanced by one: that send is the only
\* one tried, it never finds the link missing, and when the channel takes
\* the packet nothing is reported.
C5_FragmentForwarded ==
    (Addressed /\ handled.pack_type.type = "MsgFragment" /\ NextLinked /\ ~drop)
        => /\ Key \in DOMAIN buffer.buffer
           /\ buffer.buffer[Key] = handled.pack_type
           /\ OnlySend(NextHop, Advanced)
           /\ sent[1].outcome \in {"ok", "disconnected"}
           /\ sent[1].outcome = "ok" => (events = <<>> /\ status = "running")

\* A kept fragment was cached and is on the next hop's channel.
C5_Witness ==
    /\ Addressed /\ handled.pack_type.type = "MsgFragment" /\ NextLinked /\ ~drop
    /\ HasPrev
    /\ buffer.buffer[Key] = handled.pack_type
    /\ OnlySend(NextHop, Advanced)
    /\ sent[1].outcome = "ok"

\* C6: a Nack addressed to this drone, with a linked next hop, whose
\* (session_id, fragment_index) is not cached is handed to the link of the
\* next hop of its header, with kind, fragment_index, session_id and hops
\* unchanged; the cache is left as it was and no Fragment is sent.
C6_NackMissForwarded ==
    (Addressed /\ handled.pack_type.type = "Nack" /\ NextLinked /\ ~Cached)
        => /\ OnlySend(NextHop, Advanced)
           /\ sent[1].outcome \in {"ok", "disconnected"}
           /\ sent[1].outcome = "ok" => (events = <<>> /\ status = "running")
           /\ buffer = pre.buffer

\* A Nack for a fragment that is not cached, while another one is, went on
\* to the next hop.
C6_Witness ==
    /\ Addressed /\ handled.pack_type.type = "Nack" /\ NextLinked /\ ~Cached
    /\ pre.buffer.buffer # <<>>
    /\ OnlySend(NextHop, Advanced)
    /\ sent[1].outcome = "ok"
    /\ buffer = pre.buffer

\* C7: a routed packet whose hops[hop_index] is another node is not handled
\* any further and is answered by a Nack(UnexpectedRecipient(self)) to the
\* previous hop hops[hop_index - 1].
C7_UnexpectedRecipient ==
    (Misaddressed /\ HasPrev)
        => /\ OnlyNack(0, UnexpectedRecipient(id))
           /\ buffer = pre.buffer
           /\ flood_id_received = pre.flood_id_received

\* C8: a routed packet addressed to this drone as the last hop of its route
\* is answered by a Nack(DestinationIsDrone) to the predecessor, nothing is
\* forwarded and the cache is unchanged -- for every route length, a route
\* of this one hop included.
C8_DestinationIsDrone ==
    (Addressed /\ ~HasNext)
        => /\ OnlyNack(0, DestinationIsDrone)
           /\ buffer = pre.buffer

\* C9: a routed packet addressed to this drone whose next hop is not in the
\* link table is answered by a Nack(ErrorInRouting(self)) to the predecessor;
\* it is not forwarded, not cached, and consumes nothing cached -- also when
\* this drone is the first hop.
C9_ErrorInRouting ==
    (Addressed /\ HasNext /\ ~NextLinked)
        => /\ OnlyNack(0, ErrorInRouting(id))
           /\ buffer = pre.buffer

\* C10: a send of a Fragment, Ack, Nack or FloodResponse that finds no link
\* or a disconnected channel reports PacketDropped with that packet to the
\* controller; a send that succeeds reports nothing.
C10_SendPrimitive ==
    status = "running" =>
        \A j \in 1..Len(sent) :
            sent[j].packet.pack_type.type # "FloodRequest" =>
                IF sent[j].outcome = "ok"
                THEN sent[j].packet \notin {events[e] : e \in 1..Len(events)}
                ELSE sent[j].packet \in {events[e] : e \in 1..Len(events)}

\* The call was given a FloodRequest with a non-empty trace.
FloodArrived ==
    /\ handled # NoPacket
    /\ handled.pack_type.type = "FloodRequest"
    /\ handled.pack_type.path_trace # <<>>
FloodPair == <<handled.pack_type.flood_id, handled.pack_type.initiator_id>>
Seen == FloodPair \in pre.flood_id_received
OneLink == Cardinality(DOMAIN pre.packet_send) = 1
\* The last entry of the received trace.
Predecessor == handled.pack_type.path_trace[Len(handled.pack_type.path_trace)][1]
PostTrace == Append(handled.pack_type.path_trace, <<id, "Drone">>)
Events == {events[e] : e \in 1..Len(events)}

\* C11: every packet received and not put on a neighbour's channel leaves a
\* Nack tried toward the predecessor, a PacketDropped event, or a failure
\* returned by the send primitive -- a rejected Ack, a retransmitted Fragment
\* without a link and a FloodRequest that cannot be forwarded included.
C11_NoSilentLoss ==
    (/\ handled # NoPacket
     /\ status = "running"
     /\ \A j \in 1..Len(sent) : sent[j].outcome # "ok")
        => \/ events # <<>>
           \/ \E j \in 1..Len(sent) :
                  \/ sent[j].packet.pack_type.type = "Nack"
                  \/ sent[j].by = "send_message"

\* C14: a FloodRequest with a non-empty trace that was already seen, or that
\* arrives at a drone with exactly one link, is answered by exactly one
\* FloodResponse handed to the link of the predecessor and is forwarded to
\* nobody; the response has the request's flood_id and session_id, the trace
\* with (self, Drone) appended, the ids of that trace reversed as hops, and
\* hop_index 1. When the channel takes it nothing is reported.
C14_FloodResponseBuilt ==
    (FloodArrived /\ (Seen \/ OneLink))
        => /\ OnlySend(Predecessor,
                       Packet(FloodResponse(handled.pack_type.flood_id, PostTrace),
                              SourceRoutingHeader(
                                  [j \in 1..Len(PostTrace) |->
                                      PostTrace[Len(PostTrace) + 1 - j][1]], 1),
                              handled.session_id))
           /\ sent[1].outcome = "ok" => (events = <<>> /\ status = "running")

\* A seen flood, at a drone with two links, was answered and the answer is
\* on the predecessor's channel.
C14_Witness ==
    /\ FloodArrived /\ Seen /\ ~OneLink
    /\ Len(handled.pack_type.path_trace) = 2
    /\ Len(sent) = 1
    /\ sent[1].to = Predecessor
    /\ sent[1].packet.pack_type.type = "FloodResponse"
    /\ sent[1].packet.routing_header.hops = <<id, 3, 1>>
    /\ sent[1].outcome = "ok"

\* C15: the first copy of a flood (non-empty trace, pair not in the dedup
\* set) at a drone that does not have exactly one link is handed once to the
\* link of every neighbour but the predecessor and to no other, with the
\* trace extended by (self, Drone) and flood_id, initiator_id, session_id and
\* routing header unchanged; the pair is in the dedup set afterwards.
C15_FloodForwarded ==
    (FloodArrived /\ ~Seen /\ ~OneLink)
        => LET targets == DOMAIN pre.packet_send \ {Predecessor} IN
           /\ Len(sent) = Cardinality(targets)
           /\ {sent[j].to : j \in 1..Len(sent)} = targets
           /\ \A j \in 1..Len(sent) :
                  sent[j].packet =
                      Packet(FloodRequest(handled.pack_type.flood_id,
                                          handled.pack_type.initiator_id, PostTrace),
                             handled.routing_header, handled.session_id)
           /\ events = <<>>
           /\ status = "running"
           /\ flood_id_received = pre.flood_id_received \cup {FloodPair}

\* A first copy went to both neighbours.
C15_Witness ==
    /\ FloodArrived /\ ~Seen /\ ~OneLink
    /\ Len(sent) = 2
    /\ sent[1].to # sent[2].to
    /\ \A j \in 1..2 : sent[j].outcome = "ok"
                       /\ sent[j].packet.pack_type.path_trace = PostTrace
    /\ FloodPair \in flood_id_received

\* C16: a FloodResponse addressed to this drone goes to the next hop of its
\* header unchanged but for the cursor; when the next hop's link is absent
\* or the send fails the response is reported to the controller as
\* PacketDropped.
C16_FloodResponseForwarded ==
    (Addressed /\ handled.pack_type.type = "FloodResponse" /\ HasNext
               /\ status = "running")
        => /\ OnlySend(NextHop, Advanced) \/ Advanced \in Events \/ handled \in Events
           /\ (~NextLinked \/ sent[1].outcome # "ok")
                  => (Advanced \in Events \/ handled \in Events)

\* C18: a FloodRequest with an empty trace is neither forwarded nor
\* answered, is reported, and leaves the node running.
C18_EmptyTraceReported ==
    (/\ handled # NoPacket
     /\ handled.pack_type.type = "FloodRequest"
     /\ handled.pack_type.path_trace = <<>>)
        => /\ sent = <<>>
           /\ status = "running"
           /\ events # <<>>

\* The keys added so far, in the order of their adds.
Added == SelectSeq(ops, LAMBDA op : op[1] = "add")
\* So far every add was of a key not added before and every get missed.
DistinctAddsOnly ==
    /\ \A i, j \in 1..Len(Added) : i # j => Added[i][2] # Added[j][2]
    /\ \A i \in 1..Len(ops) : ops[i][1] = "get" => ~ops[i][3]
Taken(key) == get_fragment(buffer, key[1], key[2]).found

\* C19: a buffer of capacity N, empty at first, that is given N + 1 distinct
\* keys has lost exactly the first of them: a take of it finds nothing and a
\* take of any of the other N finds its fragment; takes of absent keys in
\* between change nothing of this.
C19_CacheFifo ==
    (DistinctAddsOnly /\ Len(Added) = buffer.max_size + 1)
        => /\ Taken(Added[1][2]) = <<>>
           /\ \A i \in 2..Len(Added) :
                  Taken(Added[i][2]) = <<MsgFragment(Added[i][2][2], "a")>>

\* Three distinct keys went into a buffer of capacity 2 with a missed take
\* in between.
C19_Witness ==
    /\ DistinctAddsOnly
    /\ buffer.max_size = 2
    /\ Len(Added) = 3
    /\ Len(ops) > 3
    /\ ops[2][1] = "get"
    /\ Added[1][2] \notin DOMAIN buffer.buffer
    /\ Cardinality(DOMAIN buffer.buffer) = 2

\* C20: whatever adds and gets were applied, the buffer never stores more
\* entries than its capacity.
C20_CacheBounded == Cardinality(DOMAIN buffer.buffer) <= buffer.max_size

\* Operation i is a get of `key` that found it.
Hit(i, key) == ops[i][1] = "get" /\ ops[i][2] = key /\ ops[i][3]
\* No add of `key` lies strictly between operations i and j.
NoAddBetween(i, j, key) ==
    \A l \in (i + 1)..(j - 1) : ~(ops[l][1] = "add" /\ ops[l][2] = key)

\* C21: whatever adds and gets came before, repeated adds of one key
\* included, once a get of a key has found it, a later get of the same key
\* with no add of that key in between finds nothing.
C21_DestructiveRead ==
    \A key \in BufferKeys : \A i, j \in 1..Len(ops) :
        (i < j /\ Hit(i, key) /\ ops[j][1] = "get" /\ ops[j][2] = key
               /\ NoAddBetween(i, j, key))
            => ~ops[j][3]

\* A key added twice was found by a get, and the next get of it, with a
\* get of another key in between, found nothing.
C21_Witness ==
    /\ Len(ops) = 5
    /\ ops[1] = <<"add", <<7, 0>>>>
    /\ ops[2] = <<"add", <<7, 0>>>>
    /\ Hit(3, <<7, 0>>)
    /\ ops[4][1] = "get" /\ ops[4][2] # <<7, 0>>
    /\ ops[5] = <<"get", <<7, 0>>, FALSE>>

\* C40: PacketBuffer keeps its two structures in step: after any sequence of
\* add_fragment (repeated keys included), get_fragment and
\* edit_max_size_buffer, the order queue holds exactly the keys of the map,
\* each exactly once, so the queue is as long as the map has entries.
C40_InStep ==
    /\ {buffer.order[j] : j \in 1..Len(buffer.order)} = DOMAIN buffer.buffer
    /\ Len(buffer.order) = Cardinality(DOMAIN buffer.buffer)

\* ------------------------------------------------- more on the last call

\* The call reached handle_fragment: a Fragment that names this drone and
\* whose next hop is a linked neighbour.
FragmentDispatched == Addressed /\ handled.pack_type.type = "MsgFragment" /\ NextLinked
\* A send of a Fragment was tried.
SentFragment == \E j \in 1..Len(sent) : sent[j].packet.pack_type.type = "MsgFragment"

\* C27: with a drop rate of 0.0 no Fragment that passes the dispatcher's
\* checks is dropped, whatever the draw: no Nack of kind Dropped is sent;
\* with a drop rate of 1.0 every such Fragment is dropped, whatever the
\* draw: none is forwarded and none is cached.
C27_DropRateBoundary ==
    FragmentDispatched
        => /\ pre.pdr = 0
               => /\ ~drop
                  /\ \A j \in 1..Len(sent) :
                         sent[j].packet.pack_type.type = "Nack"
                             => sent[j].packet.pack_type.nack_type # Dropped
           /\ pre.pdr = 100
               => /\ drop
                  /\ ~SentFragment
                  /\ buffer = pre.buffer

\* At drop rate 1.0 a Fragment with a previous hop was answered by a Nack
\* of kind Dropped and left the buffer as it was.
C27_Witness ==
    /\ FragmentDispatched
    /\ pre.pdr = 100
    /\ HasPrev
    /\ OnlyNack(handled.pack_type.fragment_index, Dropped)
    /\ sent[1].outcome = "ok"
    /\ buffer = pre.buffer

\* C28: a Nack that names this drone at hop_index 0 of a two-hop header,
\* for a fragment the drone has cached, makes the drone send a MsgFragment
\* with that fragment_index to the header's other hop, a linked neighbour.
C28_NackAtFirstHop ==
    (/\ Addressed
     /\ handled.pack_type.type = "Nack"
     /\ hrh.hop_index = 0
     /\ Len(hrh.hops) = 2
     /\ NextLinked
     /\ Cached)
        => \E j \in 1..Len(sent) :
               /\ sent[j].to = NextHop
               /\ sent[j].packet.pack_type.type = "MsgFragment"
               /\ sent[j].packet.pack_type.fragment_index = handled.pack_type.fragment_index

\* C29: whatever header an Ack carries and whatever the buffer holds, an
\* entry under the Ack's session_id and fragment_index included, handling
\* the Ack sends no MsgFragment and leaves the buffer as it was.
C29_AckNeverRetransmits ==
    (handled # NoPacket /\ handled.pack_type.type = "Ack")
        => (~SentFragment /\ buffer = pre.buffer)

\* An Ack for a cached fragment went on to its next hop and the fragment is
\* still cached.
C29_Witness ==
    /\ Addressed
    /\ handled.pack_type.type = "Ack"
    /\ Cached
    /\ NextLinked
    /\ OnlySend(NextHop, Advanced)
    /\ sent[1].outcome = "ok"
    /\ Key \in DOMAIN buffer.buffer

\* C30: handling a packet of any type, accepted or rejected, leaves the link
\* table and the drop rate as they were; the dedup set changes only when a
\* FloodRequest is handled and only grows; the buffer changes only when a
\* Fragment is kept or a Nack finds its fragment; and a step of run() on a
\* command leaves the buffer and the dedup set as they were.
C30_OwnerOnly ==
    /\ [](handled # NoPacket
            => /\ packet_send = pre.packet_send
               /\ pdr = pre.pdr
               /\ flood_id_received # pre.flood_id_received
                      => /\ handled.pack_type.type = "FloodRequest"
                         /\ pre.flood_id_received \subseteq flood_id_received
               /\ buffer # pre.buffer
                      => \/ FragmentDispatched /\ ~drop
                         \/ /\ Addressed /\ handled.pack_type.type = "Nack"
                            /\ NextLinked /\ Cached)
    /\ [][(handled = NoPacket /\ handled' = NoPacket)
             => (buffer' = buffer /\ flood_id_received' = flood_id_received)]_vars

\* After commands changed the drop rate and removed a link, a Nack took its
\* fragment out of the buffer of a drone that has seen a flood.
C30_Witness ==
    /\ Addressed /\ handled.pack_type.type = "Nack" /\ NextLinked /\ Cached
    /\ buffer # pre.buffer
    /\ pdr = 100
    /\ Cardinality(DOMAIN packet_send) = 1
    /\ flood_id_received # {}

\* C31: the three unreachable!() of the source are never reached from the
\* loop of run(): handle_ack_nack is never entered with hop_index >=
\* hops.len(), the match of handle_packet after its checks never sees a
\* FloodRequest, and handle_command is never given Crash.
C31_AssertionsUnreachable == status # "unreachable"

\* An Ack or Nack whose header ends at this drone was turned back by the
\* dispatcher with a Nack DestinationIsDrone, on a drone that has handled a
\* FloodRequest before.
C31_Witness ==
    /\ Addressed
    /\ handled.pack_type.type \in {"Ack", "Nack"}
    /\ ~HasNext
    /\ HasPrev
    /\ OnlyNack(0, DestinationIsDrone)
    /\ status = "running"
    /\ flood_id_received # {}

\* The call reached the lookup of handle_ack_nack and the lookup hit: a Nack
\* that names this drone, whose next hop is a linked neighbour, for a
\* fragment the drone has cached.
NackHit == Addressed /\ handled.pack_type.type = "Nack" /\ NextLinked /\ Cached
\* The Fragment crates/drone/src/lib.rs retransmits on the same Nack and the
\* same buffer, and the neighbour it hands it to.
LibRetransmission ==
    Packet(pre.buffer.buffer[Key], lib_retransmission_header(Advanced.routing_header),
           handled.session_id)
LibDestination ==
    LibRetransmission.routing_header.hops[LibRetransmission.routing_header.hop_index + 1]

\* C32: the two retransmission paths are inconsistent: on the same Nack and
\* the same buffer, the path of src/src/drone.rs (decrement, reverse,
\* increment) and the path of crates/drone/src/lib.rs (reverse only) do not
\* hand the same Fragment with the same hop_index to the same neighbour; in
\* no call do the two agree.
C32_PathsDisagree ==
    NackHit
        => \A j \in 1..Len(sent) :
               ~(sent[j].to = LibDestination /\ sent[j].packet = LibRetransmission)

\* A Nack hit in the middle of a route: the drone handed the Fragment to the
\* previous hop of the Nack's header, where lib.rs hands it to the next hop,
\* another node, with another hop_index.
C32_Witness ==
    /\ NackHit
    /\ HasPrev
    /\ Len(sent) = 1
    /\ sent[1].packet.pack_type.type = "MsgFragment"
    /\ sent[1].outcome = "ok"
    /\ sent[1].to = PrevHop
    /\ LibDestination = NextHop
    /\ PrevHop # NextHop
    /\ sent[1].packet.routing_header.hop_index # LibRetransmission.routing_header.hop_index

\* C33: every Nack the drone emits because it could not process a Fragment
\* with index k of session s, of whichever kind (Dropped, ErrorInRouting,
\* DestinationIsDrone, UnexpectedRecipient), carries fragment_index k and
\* session_id s.
C33_NackNamesFragment ==
    (handled # NoPacket /\ handled.pack_type.type = "MsgFragment")
        => \A j \in 1..Len(sent) :
               sent[j].packet.pack_type.type = "Nack"
                   => /\ sent[j].packet.pack_type.fragment_index
                             = handled.pack_type.fragment_index
                      /\ sent[j].packet.session_id = handled.session_id

\* C34: only a Nack of kind Dropped consumes the cache: a Nack of kind
\* ErrorInRouting, DestinationIsDrone or UnexpectedRecipient that names this
\* drone and has a linked next hop is forwarded to that hop and leaves the
\* buffer as it was, whatever the buffer holds.
C34_OnlyDroppedConsumes ==
    (/\ Addressed
     /\ handled.pack_type.type = "Nack"
     /\ handled.pack_type.nack_type # Dropped
     /\ NextLinked)
        => /\ OnlySend(NextHop, Advanced)
           /\ buffer = pre.buffer

\* ------------------------------------------------- claims on commands

\* The last command was of this kind.
Commanded(kind) == command # NoCommand /\ command[1] = kind

\* C25: RemoveSender(x) on a drone with no link to x leaves the link table
\* as it was and the drone running; AddSender(x, c2) on a drone linked to x
\* leaves the channel installed first, so that two AddSender for x give the
\* link table the first one alone gives.
C25_CommandIdempotence ==
    /\ (Commanded("RemoveSender") /\ command[2] \notin DOMAIN pre.packet_send)
           => (packet_send = pre.packet_send /\ status = "running")
    /\ (Commanded("AddSender") /\ command[2] \in DOMAIN pre.packet_send)
           => (packet_send = pre.packet_send /\ status = "running")
    /\ \A first, second \in {cmd \in CommandInputs : cmd[1] = "AddSender"} :
           first[2] = second[2]
               => handle_command(handle_command(self, first), second).packet_send
                      = handle_command(self, first).packet_send

\* AddSender(3, 13) reached a drone linked to 3 over channel 3, which is
\* still the channel installed.
C25_Witness ==
    /\ command = <<"AddSender", 3, 13>>
    /\ 3 \in DOMAIN pre.packet_send
    /\ pre.packet_send[3] = 3
    /\ packet_send[3] = 3

\* C26: SetPacketDropRate(p) makes p the drop rate exactly when
\* 0.0 <= p <= 1.0, both bounds included; any other p leaves the drop rate
\* as it was, and the drone keeps running either way.
C26_DropRateValidated ==
    Commanded("SetPacketDropRate")
        => /\ (0 <= command[2] /\ command[2] <= 100) => pdr = command[2]
           /\ ~(0 <= command[2] /\ command[2] <= 100) => pdr = pre.pdr
           /\ (pdr # pre.pdr) => (0 <= command[2] /\ command[2] <= 100)
           /\ status = "running"

\* A rate above 1.0 was refused by a drone whose rate was 0.5.
C26_Witness ==
    /\ command = <<"SetPacketDropRate", 101>>
    /\ pre.pdr = 50
    /\ pdr = 50

\* ------------------------------------------------- claims on the reactor

\* The step takes a message off one of the two channels.
Picks ==
    \/ Len(controller_recv') < Len(controller_recv)
    \/ Len(packet_recv') < Len(packet_recv)

\* C22: whenever run() takes its next message while controller_recv holds a
\* command, it takes the oldest command and leaves every queued packet where
\* it is; so a Crash that is queued is taken before any packet.
C22_CommandPriority ==
    [][(controller_recv # <<>> /\ Picks)
          => /\ controller_recv' = Tail(controller_recv)
             /\ serviced' = Append(serviced, Head(controller_recv))
             /\ command' = Head(controller_recv)
             /\ packet_recv' = packet_recv
             /\ handled' = NoPacket]_vars

\* A command has just been taken, no packet was handled, and the loop
\* stands before its next pick with a command and MaxQueue packets queued.
C22_Witness ==
    /\ status = "running"
    /\ command # NoCommand
    /\ handled = NoPacket
    /\ controller_recv # <<>>
    /\ Len(packet_recv) = MaxQueue

\* Command k of the controller was sent with no Crash sent before it.
Owed(k) ==
    /\ Len(issued) >= k
    /\ \A j \in 1..(k - 1) : issued[j] # <<"Crash">>

\* C23: every command the controller sends to a drone whose loop no Crash
\* has been sent to end is eventually taken by run(), and the commands are
\* taken in the order sent, whatever packets arrive and however fast.
C23_CommandsServiced ==
    /\ [](/\ Len(serviced) <= Len(issued)
          /\ serviced = SubSeq(issued, 1, Len(serviced)))
    /\ \A k \in 1..MaxCommands : Owed(k) ~> (Len(serviced) >= k)

\* C24: taking Crash ends the loop, and from then on the drone takes no
\* command and no packet, sends nothing, reports nothing and leaves its
\* buffer as it is: what is queued stays queued.
C24_CrashStops ==
    [][/\ (Len(serviced') > Len(serviced) /\ Head(controller_recv) = <<"Crash">>)
           => status' = "crashed"
       /\ status = "crashed"
           => /\ status' = "crashed"
              /\ UNCHANGED <<serviced, command, handled, sent, events>>
              /\ UNCHANGED <<pdr, packet_send, flood_id_received, buffer>>
              /\ ~Picks]_vars

\* The loop has ended with a command and a packet queued and a fragment in
\* the buffer.
C24_Witness ==
    /\ status = "crashed"
    /\ controller_recv # <<>>
    /\ packet_recv # <<>>
    /\ DOMAIN buffer.buffer = {<<7, 0>>}

\* The controller has dropped its Sender and has never sent Crash.
ClosedWithoutCrash == ~controller_open /\ \A j \in 1..Len(issued) : issued[j][1] # "Crash"
IsPrefix(q, s) == Len(q) <= Len(s) /\ SubSeq(s, 1, Len(q)) = q
\* What the packet channel can hold.
ReactorQueues == SeqsUpTo(ReactorPackets, MaxQueue)

\* C36: closing the command channel does not stop packet processing: once
\* the controller has dropped its Sender without sending Crash, a drone with
\* packets queued eventually takes the oldest of them (the queue, which
\* arrivals only extend at its end, stops beginning with what it held).
C36_ClosedChannelHarmless ==
    \A q \in ReactorQueues \ {<<>>} :
        (ClosedWithoutCrash /\ packet_recv = q) ~> ~IsPrefix(q, packet_recv)

\* run() has serviced RemoveSender(x) and no AddSender(x, ...) since.
Removed(x) ==
    \E i \in 1..Len(serviced) :
        /\ serviced[i] = <<"RemoveSender", x>>
        /\ \A j \in (i + 1)..Len(serviced) :
               ~(serviced[j][1] = "AddSender" /\ serviced[j][2] = x)

\* C37: removed links are never used: from the moment run() has serviced
\* RemoveSender(x) until it services a later AddSender(x, ...), no call hands
\* a packet of any type to the link to x, however commands and packets
\* interleave: every send a call tries towards x finds no link.
C37_RemovedLinksUnused ==
    \A x \in Neighbours :
        Removed(x) => \A j \in 1..Len(sent) : sent[j].to = x => sent[j].outcome = "no_link"

\* With the link to 3 removed, a Fragment whose next hop is 3 was turned back
\* to its previous hop with a Nack ErrorInRouting.
C37_Witness ==
    /\ Removed(3)
    /\ Addressed /\ handled.pack_type.type = "MsgFragment"
    /\ NextHop = 3
    /\ OnlyNack(0, ErrorInRouting(id))
    /\ sent[1].to = 1
    /\ sent[1].outcome = "ok"

\* ------------------------------------------------- claims on routed packets

\* No live drone has a packet waiting or a send left to make.
RouteQuiet ==
    \A n \in DOMAIN cache : n \notin failed => (channel[n] = <<>> /\ outbox[n] = <<>>)

\* C35: the network quiesces: once the routed packets are on the channels and
\* no further packet or command arrives, every execution reaches a state in
\* which all packet channels of the drones are empty -- Nacks answered by
\* Nacks do not bounce between two nodes forever, also on a route whose
\* first or last hop is a drone and after a link of the route was removed.
C35_NetworkQuiesces == <>RouteQuiet

RECURSIVE IsSubseq(_, _)
\* The members of a occur in b in the order they have in a.
IsSubseq(a, b) ==
    IF a = <<>> THEN TRUE
    ELSE IF b = <<>> THEN FALSE
    ELSE IF Head(a) = Head(b) THEN IsSubseq(Tail(a), Tail(b))
    ELSE IsSubseq(a, Tail(b))

\* The Fragments handed to the link to n, in order, as they arrive.
Arrivals(n) ==
    LET es == SelectSeq(log, LAMBDA e : e.to = n) IN [j \in 1..Len(es) |-> es[j].packet]
\* The Fragments n has forwarded to m, in order, as n received them.
Forwards(n, m) ==
    LET es == SelectSeq(log, LAMBDA e : e.from = n /\ e.to = m /\ e.cause = "MsgFragment")
    IN  [j \in 1..Len(es) |-> [es[j].packet EXCEPT !.routing_header.hop_index = @ - 1]]
\* The payloads of the Fragments in a sequence of packets.
Payloads(packets) ==
    LET frags == SelectSeq(packets, LAMBDA p : p.pack_type.type = "MsgFragment")
    IN  [j \in 1..Len(frags) |-> frags[j].pack_type]

\* C38: forwarding preserves order: with drop rate 0.0 and a link table that
\* does not change, the Fragments a drone forwards to one next hop are handed
\* to that link in the order in which they arrived at the drone, so the
\* Fragments sent along one route reach the destination in the order the
\* source sent them.
C38_OrderPreserved ==
    pdr = 0
        => /\ \A n \in DOMAIN cache : \A m \in DOMAIN channel :
                  IsSubseq(Forwards(n, m), Arrivals(n))
           /\ IsSubseq(Payloads(channel[NetSize]),
                       Payloads([j \in 1..Len(log) |-> log[j].packet]))

\* Both Fragments of the source have crossed every drone of the route and
\* wait at the destination in the order they were sent.
C38_Witness ==
    /\ pdr = 0
    /\ Payloads(channel[NetSize]) = <<MsgFragment(0, "a"), MsgFragment(1, "b")>>
    /\ \A n \in DOMAIN cache : Len(Forwards(n, n + 1)) = 2

\* Entry k of the log is a retransmission in answer to a Nack of kind Dropped.
Retransmission(k) ==
    /\ log[k].cause = "Nack"
    /\ log[k].on.pack_type.nack_type = Dropped

IsRequest(p) == p.pack_type.type = "FloodRequest"
IsResponse(p) == p.pack_type.type = "FloodResponse"
TraceIds(p) == [j \in 1..Len(p.pack_type.path_trace) |-> p.pack_type.path_trace[j][1]]
Traces(S) == {p.pack_type.path_trace : p \in S}

\* Nothing waits in a channel and no call has a send left to make.
Quiet == \A n \in DOMAIN channel : channel[n] = <<>> /\ outbox[n] = <<>>

\* No FloodRequest is in a channel or about to be put into one.
NoRequestInFlight ==
    \A n \in DOMAIN channel :
        /\ \A j \in DOMAIN channel[n] : ~IsRequest(channel[n][j])
        /\ \A j \in DOMAIN outbox[n] : ~IsRequest(outbox[n][j].packet)

\* Every drone reachable from the initiator has marked the flood as seen.
AllMarked ==
    \A n \in DOMAIN dedup :
        n \in Reach(topology, {Initiator}) => <<TheFlood.pack_type.flood_id, Initiator>> \in dedup[n]

C13_FloodTerminates == <>[](NoRequestInFlight /\ AllMarked)

\* A flood that has run over a network with a drone of three links is over.
C13_Witness ==
    /\ topology # <<>>
    /\ Quiet
    /\ AllMarked
    /\ \E n \in DOMAIN dedup : Cardinality(topology[n]) = 3

\* A FloodResponse waiting at node v is routed over its trace in reverse and
\* stands at the entry of v.
OnRoute(p, v) ==
    /\ p.routing_header.hops = Rev(TraceIds(p))
    /\ p.routing_header.hop_index + 1 \in DOMAIN p.routing_header.hops
    /\ p.routing_header.hops[p.routing_header.hop_index + 1] = v

\* Every FloodResponse built has reached the initiator with its cursor on the
\* last hop.
AllDelivered ==
    /\ Traces(delivered) = Traces(generated)
    /\ Cardinality(delivered) = Cardinality(generated)
    /\ \A p \in delivered :
           p.routing_header.hop_index + 1 = Len(p.routing_header.hops)

====
